---- MODULE Spec2Model ----
(***************************************************************************)
(* Model of the prescription extraction service (url_extractor_api):       *)
(*   - utils/testMap_utils.py : catalog matching by cosine similarity      *)
(*   - utils/utils.py         : image loading, validation, compression     *)
(*   - routes/url_api.py      : the extract_and_map_tests request handler  *)
(*   - routes/add_pres.py     : the prescription persistence endpoint      *)
(*                                                                         *)
(* Embedding vectors are integer vectors; cosine similarities are compared *)
(* exactly (by cross-multiplying squares), never rounded.  Thresholds are  *)
(* percentages: threshold 80 is the float 0.80.                            *)
(***************************************************************************)
EXTENDS Integers, Naturals, Sequences, FiniteSets, TLC

\* ------------------------------------------------------------------ bounds
\* Largest number of records in a catalog.
MaxCat == 3
\* Largest encoded image size, in bytes.
MaxEncSize == 3
\* Largest number of prescribed tests in an extraction response.
MaxTests == 2
\* Largest number of requests the handler answers one after the other.
MaxRequests == 2
\* Largest value of the clock, in seconds.
MaxClock == 1

VARIABLES
    df_test,        \* test catalog: sequence of [TestCode, TestName, emb]
    df_ref,         \* referrer catalog: sequence of [RefCode, RefName, RefType, emb]
    threshold,      \* config['threshold'], in percent
    max_size,       \* config['max_size_mb'], as a byte budget
    probe,          \* the last direct call of map_test_code / map_ref_code
    web,            \* the images the requested URLs may serve
    provider,       \* which responses the extraction provider may give
    now,            \* the clock, in seconds since the service started
    served,         \* number of requests the handler has answered
    peer,           \* a second request, served concurrently by the same process
    pc,             \* position of the request handler extract_and_map_tests
    request,        \* image_url: [url, booking_id]
    image,          \* the loaded image [format, sizes], then image_bytes
    quality,        \* compress_image: quality
    buffer,         \* compress_image: contents of the BytesIO buffer
    size,           \* compress_image: buffer.tell() after the last save
    encodings,      \* compress_image: number of img.save calls made
    files,          \* the output directory: path -> file contents
    compressed_image_path,
    gpt_content,    \* response.choices[0].message.content
    extracted_data, \* the parsed and normalised extraction
    mapped_tests,   \* the list built by the Step 7 loop
    matched,        \* what map_test_code returned in each iteration of the loop
    combined_result,\* the payload of Step 8
    external_api_response, \* the persistence service's answer to the post
    calls,          \* log of the stages and external calls of the request
    raised,         \* the exception caught by the handler's except clause
    response,       \* what the caller receives
    stored          \* the prescriptions collection of the persistence service

cfgVars == <<df_test, df_ref, threshold, max_size, web, provider>>
svcVars == <<now, served, peer>>
compressVars == <<quality, buffer, size, encodings>>
reqVars == <<pc, request, image, quality, buffer, size, encodings, files,
             compressed_image_path, gpt_content, extracted_data, mapped_tests,
             matched, combined_result, external_api_response, calls, raised,
             response, stored>>
vars == <<df_test, df_ref, threshold, max_size, probe, web, provider, now,
          served, peer, pc, request, image,
          quality, buffer, size, encodings, files, compressed_image_path,
          gpt_content, extracted_data, mapped_tests, matched, combined_result,
          external_api_response, calls, raised, response, stored>>

\* None of Python.
None == "None"

\* -------------------------------------------------------------- embeddings
Dot(a, b) == a[1] * b[1] + a[2] * b[2]
Norm2(a) == Dot(a, a)

\* Embeddings stored in the catalogs.
CatVecs == { <<1, 0>>, <<0, 1>>, <<0, 0>>, <<-1, 0>> }
\* Embeddings the provider returns for a query text.
QueryVecs == { <<1, 0>>, <<3, 4>>, <<3, 1>>, <<0, 0>>, <<-3, -1>> }
\* Values of config['threshold'] (0.0, 0.6, 0.8, 0.97).
Thresholds == { 0, 60, 80, 97 }
\* Texts handed to the matcher; the first two are empty / whitespace-only.
Texts == { "", " ", "cbc" }
IsBlank(text) == text \in { "", " " }

\* sklearn's cosine_similarity(q, e) = dot(q,e) / (|q| |e|), with a zero norm
\* replaced by 1 (so the similarity of a zero vector is 0).  A similarity is
\* kept as the pair <<num, den2>> standing for num / sqrt(den2), den2 > 0.
cosine_similarity(q, e) ==
    IF Norm2(q) = 0 \/ Norm2(e) = 0 THEN <<0, 1>>
    ELSE <<Dot(q, e), Norm2(q) * Norm2(e)>>

\* s < t for similarities s, t.
SimLess(s, t) ==
    IF s[1] < 0 /\ t[1] >= 0 THEN TRUE
    ELSE IF s[1] >= 0 /\ t[1] < 0 THEN FALSE
    ELSE IF s[1] >= 0 THEN s[1] * s[1] * t[2] < t[1] * t[1] * s[2]
    ELSE s[1] * s[1] * t[2] > t[1] * t[1] * s[2]

\* s >= thr/100 for a similarity s and a threshold thr in 0..100.
SimGeqThreshold(s, thr) ==
    /\ s[1] >= 0
    /\ 10000 * s[1] * s[1] >= thr * thr * s[2]

\* similarities = cosine_similarity([input_embedding], df_embeddings)[0]
Similarities(q, embs) == [i \in 1..Len(embs) |-> cosine_similarity(q, embs[i])]

RECURSIVE ArgmaxScan(_, _)
\* Variant of the scan in which an equal value replaces the running best
\* (the last of the best-scoring records wins).
ArgmaxLastWins(sims, n) ==
    IF n = 1 THEN 1
    ELSE LET b == ArgmaxScan(sims, n - 1)
         IN IF ~ SimLess(sims[n], sims[b]) THEN n ELSE b
\* The scan of np.argmax over sims[1..n]: the running best index is replaced
\* only by a strictly larger value.
ArgmaxScan(sims, n) ==
    IF n = 1 THEN 1
    ELSE LET b == ArgmaxScan(sims, n - 1)
         IN IF SimLess(sims[b], sims[n]) THEN n ELSE b

\* most_similar_index = np.argmax(similarities)
argmax(sims) == ArgmaxScan(sims, Len(sims))

\* Variants of the threshold test: highest_similarity > threshold, and
\* highest_similarity <= threshold.
ExceedsStrict(s, thr) ==
    SimGeqThreshold(s, thr) /\ 10000 * s[1] * s[1] # thr * thr * s[2]
ExceedsFlipped(s, thr) ==
    ~ SimGeqThreshold(s, thr) \/ 10000 * s[1] * s[1] = thr * thr * s[2]
\* if highest_similarity >= threshold
Exceeds(s, thr) == SimGeqThreshold(s, thr)

Embeddings(df) == [i \in 1..Len(df) |-> df[i].emb]

\* Variant of the lookup that leaves the frame in reverse order (as a sort
\* in place would).
AfterLookupReordered(df) == [i \in 1..Len(df) |-> df[Len(df) + 1 - i]]
\* The frame after a lookup: map_test_code and map_ref_code read the
\* embedding column (tolist) and one row (iloc) and assign nothing to it.
AfterLookup(df) == df

\* The exception an operation raised, or NoError.
NoError == [kind |-> "none"]
Raised(kind, status, detail) == [kind |-> kind, status |-> status, detail |-> detail]

\* map_test_code after get_embedding returned q: the pair
\* (closest_test_name, closest_test_code), or the ValueError that
\* cosine_similarity raises for an empty catalog.
map_test_code(df, q, thr) ==
    IF Len(df) = 0
    THEN [error |-> Raised("ValueError", 0, "empty catalog"), index |-> 0,
          name |-> None, code |-> None]
    ELSE LET similarities == Similarities(q, Embeddings(df))
             most_similar_index == argmax(similarities)
             highest_similarity == similarities[most_similar_index]
         IN IF Exceeds(highest_similarity, thr)
            THEN [error |-> NoError, index |-> most_similar_index,
                  name |-> df[most_similar_index].TestName,
                  code |-> df[most_similar_index].TestCode]
            ELSE [error |-> NoError, index |-> most_similar_index,
                  name |-> None, code |-> None]

\* map_ref_code after get_embedding returned q: the triple
\* (closest_ref_name, closest_ref_code, closest_ref_type).
map_ref_code(df, q, thr) ==
    IF Len(df) = 0
    THEN [error |-> Raised("ValueError", 0, "empty catalog"), index |-> 0,
          name |-> None, code |-> None, type |-> None]
    ELSE LET similarities == Similarities(q, Embeddings(df))
             most_similar_index == argmax(similarities)
             highest_similarity == similarities[most_similar_index]
         IN IF Exceeds(highest_similarity, thr)
            THEN [error |-> NoError, index |-> most_similar_index,
                  name |-> df[most_similar_index].RefName,
                  code |-> df[most_similar_index].RefCode,
                  type |-> df[most_similar_index].RefType]
            ELSE [error |-> NoError, index |-> most_similar_index,
                  name |-> None, code |-> None, type |-> None]

\* ---------------------------------------------------------------- catalogs
\* Catalogs of n records whose embeddings are embs[1..n]; names and codes are
\* numbered in load order.
TestCodes == <<"T001", "T002", "T003", "T004">>
TestNames == <<"Complete Blood Count", "Liver Function Test", "Lipid Profile", "Thyroid Profile">>
RefCodes == <<"R001", "R002", "R003", "R004">>
RefNames == <<"Dr A", "Dr B", "City Hospital", "City Lab">>
RefTypes == <<"Doctor", "Doctor", "Hospital", "Lab">>
TestCatalog(embs) ==
    [i \in 1..Len(embs) |->
        [TestCode |-> TestCodes[i], TestName |-> TestNames[i], emb |-> embs[i]]]
RefCatalog(embs) ==
    [i \in 1..Len(embs) |->
        [RefCode |-> RefCodes[i], RefName |-> RefNames[i],
         RefType |-> RefTypes[i], emb |-> embs[i]]]
SeqsUpTo(S, n) == UNION { [1..k -> S] : k \in 0..n }

\* ------------------------------------------------------- request handler
\* image_url.url: a scheme prefix and the rest; booking_id: a string.
Urls == { [scheme |-> "http://", rest |-> "host/a"],
          [scheme |-> "https://", rest |-> "host/a"],
          [scheme |-> "ftp://", rest |-> "host/a"] }
BookingIds == { "B1", "B2" }
startswith(url, prefix) == url.scheme = prefix

\* str.lower on PIL format names.
lower(fmt) ==
    CASE fmt = "JPEG" -> "jpeg"
      [] fmt = "PNG" -> "png"
      [] fmt = "GIF" -> "gif"
      [] fmt = "WEBP" -> "webp"
      [] fmt = "BMP" -> "bmp"
      [] fmt = "MPO" -> "mpo"
      [] fmt = "TIFF" -> "tiff"
      [] OTHER -> fmt
\* Variant of the allow-list that also admits bitmaps.
valid_extensions_with_bmp == { "png", "jpg", "jpeg", "gif", "webp", "bmp" }
\* valid_extensions = ['png', 'jpg', 'jpeg', 'gif', 'webp']
valid_extensions == { "png", "jpg", "jpeg", "gif", "webp" }

NoRequest == [url |-> [scheme |-> "", rest |-> ""], booking_id |-> ""]
NoImage == [format |-> None, sizes |-> << >>]
NoData == [referrer_name |-> None, tests_json |-> "missing",
           prescribed_test |-> << >>,
           patient_age |-> [t |-> "missing", s |-> ""],
           patient_name |-> [t |-> "missing", s |-> ""],
           mapped_ref_name |-> None, mapped_ref_code |-> None,
           mapped_ref_type |-> None]
NoPayload == [booking_id |-> None]
NoResponse == [status |-> 0]
NoExternalResponse == [status_code |-> 0]
NoProbe == [fn |-> None]
NoPeer == [pc |-> "none"]

Call(op, arg) == [op |-> op, arg |-> arg]

\* str(e) inside the handler's except clause.  For an HTTPException it is
\* "<status>: <detail>" or, with a Starlette that defines no __str__, "".
StrOf(e) ==
    IF e.kind = "HTTPException"
    THEN { [status |-> 0, text |-> ""], [status |-> e.status, text |-> e.detail] }
    ELSE { [status |-> 0, text |-> e.detail] }

\* The status the handler's except clause answers with.
ExceptStatus(e) == 500

\* except Exception as e: raise HTTPException(500, f"Error during processing: {e}")
Fail(e) ==
    /\ pc' = "failed"
    /\ raised' = e
    /\ \E s \in StrOf(e) :
          response' = [status |-> ExceptStatus(e),
                       detail |-> [prefix |-> "Error during processing: ",
                                   status |-> s.status, text |-> s.text]]

\* A request arrives.
Receive ==
    /\ pc = "idle"
    /\ \E u \in Urls, b \in BookingIds :
          request' = [url |-> u, booking_id |-> b]
    /\ pc' = "load"
    /\ UNCHANGED <<cfgVars, svcVars, probe, image, compressVars, files,
                   compressed_image_path, gpt_content, extracted_data,
                   mapped_tests, matched, combined_result, external_api_response, calls,
                   raised, response, stored>>

\* Variant of LoadError in which Step 1 swallows the exception and the
\* handler goes on without an image.
LoadErrorSwallowed(e) ==
    /\ raised' = e
    /\ image' = NoImage
    /\ pc' = "validate"
    /\ UNCHANGED response
\* Variant of LoadError in which Step 1 tries the fetch again.
LoadErrorRetried(e) ==
    /\ raised' = e
    /\ pc' = "load"
    /\ UNCHANGED <<image, response>>
\* An exception of load_image_from_source is not caught at Step 1: it
\* reaches the handler's except clause and the request ends.
LoadError(e) == Fail(e) /\ UNCHANGED image

\* Step 1: the URL check and load_image_from_source.
Load ==
    /\ pc = "load"
    /\ IF startswith(request.url, "http://") \/ startswith(request.url, "https://")
       THEN /\ calls' = Append(calls, Call("requests.get", request.url))
            /\ \/ \E img \in web :
                     /\ image' = img
                     /\ pc' = "validate"
                     /\ UNCHANGED <<raised, response>>
               \/ LoadError(Raised("HTTPException", 400, "Error loading image from URL"))
               \/ LoadError(Raised("HTTPException", 500, "Error loading image"))
       ELSE /\ Fail(Raised("HTTPException", 400, "Invalid URL format. Must be an HTTP/HTTPS URL."))
            /\ UNCHANGED <<image, calls>>
    /\ UNCHANGED <<cfgVars, svcVars, probe, request, compressVars, files,
                   compressed_image_path, gpt_content, extracted_data,
                   mapped_tests, matched, combined_result, external_api_response, stored>>

\* Step 2: image.save to image_bytes, which decodes the lazily opened image
\* and raises when its data is damaged, then validate_image.
Validate ==
    /\ pc = "validate"
    /\ \/ /\ calls' = Append(calls, Call("validate_image", image.format))
          /\ IF lower(image.format) \notin valid_extensions
             THEN Fail(Raised("HTTPException", 400, "Invalid image: Unsupported image format"))
             ELSE /\ pc' = "compress"
                  /\ UNCHANGED <<raised, response>>
       \/ /\ Fail(Raised("OSError", 0, "image file is truncated"))
          /\ UNCHANGED calls
    /\ UNCHANGED <<cfgVars, svcVars, probe, request, image, compressVars, files,
                   compressed_image_path, gpt_content, extracted_data,
                   mapped_tests, matched, combined_result, external_api_response, stored>>

\* ---------------------------------------------------------- compress_image
InitialQuality == 95
QualityStep == 5
QualityFloor == 5

\* The qualities the loop can reach: 95, 90, ..., 5.
Qualities == { QualityStep * k : k \in 1..(InitialQuality \div QualityStep) }

\* An image is [format, sizes]: sizes[q] is the number of bytes img.save
\* produces for it at quality q.  The encoder is deterministic, and its
\* output does not grow as the quality is lowered: sizes is the step
\* function that adds one byte at every cut point at or below q.
CutPoints == Qualities \cup { InitialQuality + QualityStep }
StepProfile(cuts) ==
    [q \in Qualities |-> 1 + Cardinality({ k \in DOMAIN cuts : q >= cuts[k] })]
Profiles == { StepProfile(cuts) : cuts \in [1..(MaxEncSize - 1) -> CutPoints] }

\* The bytes img.save produces at quality q: each byte is marked with the
\* quality of the encoding it belongs to.
Encoding(img, q) == [i \in 1..img.sizes[q] |-> q]

\* buffer.seek(0) followed by a write of data: BytesIO overwrites from the
\* position and keeps whatever lay beyond the end of the write.
WriteAt0(buf, data) ==
    IF Len(data) >= Len(buf) THEN data
    ELSE data \o SubSeq(buf, Len(data) + 1, Len(buf))

\* Variant of the exit test that gives up one quality step above the floor.
LoopExitEarly(sz, q, budget) == sz <= budget \/ q <= QualityFloor + QualityStep
\* The loop's exit test: size within the budget, or quality at the floor.
LoopExit(sz, q, budget) == sz <= budget \/ q <= QualityFloor

\* datetime.now().strftime("%Y-%m-%d-%H-%M-%S"): six numbers, each padded
\* with zeros to its width.  The service started at 2024-11-13 10:00:00 and
\* the clock has advanced by `now` seconds.
RECURSIVE Digits(_)
Digits(n) == IF n < 10 THEN 1 ELSE 1 + Digits(n \div 10)
Pad(n, width) == [width |-> IF Digits(n) < width THEN width ELSE Digits(n), value |-> n]
strftime(t) ==
    << Pad(2024, 4), Pad(11, 2), Pad(13, 2),
       Pad(10 + t \div 3600, 2), Pad((t \div 60) % 60, 2), Pad(t % 60, 2) >>
Timestamp == strftime(now)
CompressedPath(fmt) == <<"output", "compressed_image_", Timestamp, lower(fmt)>>

\* compress_image as a whole: the buffer after the loop, which is what the
\* function writes to its output file.
RECURSIVE CompressLoop(_, _, _, _)
CompressLoop(img, q, buf, budget) ==
    LET data == Encoding(img, q)
        written == WriteAt0(buf, data)
    IN IF LoopExit(Len(data), q, budget) THEN written
       ELSE CompressLoop(img, q - QualityStep, written, budget)
compress_image(img, budget) == CompressLoop(img, InitialQuality, << >>, budget)

\* compress_image up to the loop: quality = 95, an empty buffer.
CompressBegin ==
    /\ pc = "compress"
    /\ calls' = Append(calls, Call("compress_image", image.format))
    /\ quality' = InitialQuality
    /\ buffer' = << >>
    /\ size' = 0
    /\ encodings' = 0
    /\ pc' = "compress_loop"
    /\ UNCHANGED <<cfgVars, svcVars, probe, request, image, files,
                   compressed_image_path, gpt_content, extracted_data,
                   mapped_tests, matched, combined_result, external_api_response,
                   raised, response, stored>>

\* One iteration of the while loop: save at the current quality, measure,
\* then break or lower the quality.
CompressStep ==
    /\ pc = "compress_loop"
    /\ buffer' = WriteAt0(buffer, Encoding(image, quality))
    /\ size' = Len(Encoding(image, quality))
    /\ encodings' = encodings + 1
    /\ IF LoopExit(size', quality, max_size)
       THEN pc' = "compress_write" /\ UNCHANGED quality
       ELSE pc' = "compress_loop" /\ quality' = quality - QualityStep
    /\ UNCHANGED <<cfgVars, svcVars, probe, request, image, files,
                   compressed_image_path, gpt_content, extracted_data,
                   mapped_tests, matched, combined_result, external_api_response, calls,
                   raised, response, stored>>

\* After the loop: buffer.getvalue() is written to the timestamped file; an
\* OSError there is re-raised as HTTPException(500).
CompressWrite ==
    /\ pc = "compress_write"
    /\ \/ /\ files' = (CompressedPath(image.format) :> buffer) @@ files
          /\ compressed_image_path' = CompressedPath(image.format)
          /\ pc' = "extract"
          /\ UNCHANGED <<raised, response>>
       \/ /\ Fail(Raised("HTTPException", 500, "Error compressing image"))
          /\ UNCHANGED <<files, compressed_image_path>>
    /\ UNCHANGED <<cfgVars, svcVars, probe, request, image, compressVars,
                   gpt_content, extracted_data,
                   mapped_tests, matched, combined_result, external_api_response, calls, stored>>

\* ------------------------------------------------------------- extraction
\* encode_image: base64 of the file's bytes, and its inverse.
encode_image(bytes) == [encoding |-> "base64", data |-> bytes]
b64decode(enc) == enc.data

\* A response of the extraction provider is a sequence of tokens: a
\* code-fence marker (three backticks), the language tag json, prose, or a JSON object.
Missing == "<missing>"
\* JSON values of the patient fields, with their JSON type: a missing key,
\* null, a string, or a number (kept by its decimal text).
JMissing == [t |-> "missing", s |-> ""]
JNull == [t |-> "null", s |-> ""]
JStr(s) == [t |-> "string", s |-> s]
JNum(s) == [t |-> "number", s |-> s]
NoObject == [referrer_name |-> Missing, tests_json |-> "missing",
             prescribed_test |-> << >>,
             patient_age |-> JMissing, patient_name |-> JMissing]
Fence == [t |-> "fence", v |-> NoObject]
Lang == [t |-> "json", v |-> NoObject]
Prose == [t |-> "text", v |-> NoObject]
Obj(o) == [t |-> "object", v |-> o]

\* The JSON objects the provider may return: referrer_name is missing, null,
\* empty or a name; prescribed_test is a list of test names, missing or
\* null; patient_age is missing, null, a string or a number; patient_name is
\* missing, null or a string.  The lists of two and more names come with
\* the referrer "Dr A", the other referrer values with a list of at most one
\* name, and the patient values with an empty list.
RefTexts == { Missing, None, "", "Dr A" }
TestTexts == { "", "cbc" }
Ages == { JMissing, JNull, JStr(""), JStr("45"), JNum("45"), JNum("0") }
Names == { JMissing, JNull, JStr(""), JStr("Asha") }
Objects ==
    { [referrer_name |-> "Dr A", tests_json |-> "array", prescribed_test |-> t,
       patient_age |-> JStr("45"), patient_name |-> JStr("Asha")] :
        t \in SeqsUpTo(TestTexts, MaxTests) }
    \cup { [referrer_name |-> r, tests_json |-> "array", prescribed_test |-> t,
            patient_age |-> JStr("45"), patient_name |-> JStr("Asha")] :
        r \in RefTexts, t \in SeqsUpTo(TestTexts, 1) }
    \cup { [referrer_name |-> r, tests_json |-> "missing", prescribed_test |-> << >>,
            patient_age |-> JStr("45"), patient_name |-> JStr("Asha")] :
        r \in RefTexts }
    \cup { [referrer_name |-> "Dr A", tests_json |-> "null", prescribed_test |-> << >>,
            patient_age |-> JStr("45"), patient_name |-> JStr("Asha")] }
    \cup { [referrer_name |-> "Dr A", tests_json |-> "array", prescribed_test |-> << >>,
            patient_age |-> a, patient_name |-> JStr("Asha")] : a \in Ages }
    \cup { [referrer_name |-> "Dr A", tests_json |-> "array", prescribed_test |-> << >>,
            patient_age |-> JStr("45"), patient_name |-> n] : n \in Names }
\* The responses: the bare object, the object between a fence tagged json
\* and a closing fence, the object between two plain fences, or prose.
Contents ==
    { << Obj(o) >> : o \in Objects }
    \cup { << Fence, Lang, Obj(o), Fence >> : o \in Objects }
    \cup { << Fence, Obj(o), Fence >> : o \in Objects }
    \cup { << Prose >> }
\* The provider either may answer anything of Contents, or always answers
\* with the same bare object (one test, one referrer) or with prose.
PlainObject == [referrer_name |-> "Dr A", tests_json |-> "array",
                prescribed_test |-> << "cbc" >>,
                patient_age |-> JStr("45"), patient_name |-> JStr("Asha")]
Responses(p) ==
    IF p = "any" THEN Contents ELSE { << Obj(PlainObject) >>, << Prose >> }

\* Index of the first / last occurrence of sep in s, 0 when there is none.
OccursAt(s, sep, i) ==
    /\ i + Len(sep) - 1 <= Len(s)
    /\ SubSeq(s, i, i + Len(sep) - 1) = sep
Occurrences(s, sep) == { i \in 1..Len(s) : OccursAt(s, sep, i) }
Min(S) == CHOOSE x \in S : \A y \in S : x <= y
Max(S) == CHOOSE x \in S : \A y \in S : x >= y
\* s.split(sep)[-1] and s.split(sep)[0]
SplitLast(s, sep) ==
    IF Occurrences(s, sep) = {} THEN s
    ELSE SubSeq(s, Max(Occurrences(s, sep)) + Len(sep), Len(s))
SplitFirst(s, sep) ==
    IF Occurrences(s, sep) = {} THEN s
    ELSE SubSeq(s, 1, Min(Occurrences(s, sep)) - 1)

\* json.loads: the text must be exactly one JSON value.
json_loads(text) ==
    IF Len(text) = 1 /\ text[1].t = "object"
    THEN [ok |-> TRUE, value |-> text[1].v]
    ELSE [ok |-> FALSE, value |-> NoObject]

\* extracted_data.get(field, "") or ""
OrEmpty(v) == IF v \in { Missing, None, "" } THEN "" ELSE v

\* Python's truth value of a typed JSON value: None, "" and 0 are false.
Truthy(v) ==
    CASE v.t \in { "missing", "null" } -> FALSE
      [] v.t = "string" -> v.s # ""
      [] v.t = "number" -> v.s # "0"
\* extracted_data.get(field, "") or "", for a typed value
OrEmptyValue(v) == IF Truthy(v) THEN v ELSE JStr("")
\* str(x)
str(v) ==
    CASE v.t = "number" -> JStr(v.s)
      [] v.t \in { "missing", "null" } -> JStr("None")
      [] OTHER -> v

\* Lines 117-127: the defaults of the fields and the string form of the age.
Defaults(value) ==
    [referrer_name |-> OrEmpty(value.referrer_name),
     tests_json |-> value.tests_json,
     prescribed_test |-> IF value.tests_json = "array"
                         THEN value.prescribed_test ELSE << >>,
     patient_age |-> str(OrEmptyValue(value.patient_age)),
     patient_name |-> OrEmptyValue(value.patient_name),
     mapped_ref_name |-> None, mapped_ref_code |-> None,
     mapped_ref_type |-> None]

\* Steps 3-5: read the compressed file back, base64-encode it and send it with
\* the prompt to the extraction provider.
Extract ==
    /\ pc = "extract"
    /\ calls' = Append(calls, Call("chat.completions",
                                   encode_image(files[compressed_image_path])))
    /\ \/ \E c \in Responses(provider) :
             /\ gpt_content' = c
             /\ pc' = "parse"
             /\ UNCHANGED <<raised, response>>
       \/ /\ Fail(Raised("OpenAIError", 0, "Connection error."))
          /\ UNCHANGED gpt_content
    /\ UNCHANGED <<cfgVars, svcVars, probe, request, image, compressVars, files,
                   compressed_image_path, extracted_data,
                   mapped_tests, matched, combined_result, external_api_response, stored>>

\* Step 6: strip the code fence, json.loads, default the missing fields.
Parse ==
    /\ pc = "parse"
    /\ LET gpt_response == SplitFirst(SplitLast(gpt_content, << Fence, Lang >>), << Fence >>)
           parsed == json_loads(gpt_response)
       IN IF ~ parsed.ok
          THEN /\ Fail(Raised("JSONDecodeError", 0, "Expecting value"))
               /\ UNCHANGED <<extracted_data, mapped_tests, matched>>
          ELSE /\ extracted_data' = Defaults(parsed.value)
               /\ mapped_tests' = << >>
               /\ matched' = << >>
               /\ pc' = IF parsed.value.tests_json = "null"
                           \/ Len(extracted_data'.prescribed_test) > 0
                        THEN "map_tests" ELSE "map_ref"
               /\ UNCHANGED <<raised, response>>
    /\ UNCHANGED <<cfgVars, svcVars, probe, request, image, compressVars, files,
                   compressed_image_path, gpt_content, combined_result,
                   external_api_response, calls, stored>>

\* --------------------------------------------------------------- matching
\* Variant of the defaulting that passes None on.
OrBlankKeepNone(v) == v
\* matched_test_name if matched_test_name else ""
OrBlank(v) == IF v = None \/ v = "" THEN "" ELSE v

\* Variant of MatchError in which the loop swallows the exception and the
\* handler goes on to the referrer with the tests mapped so far.
MatchErrorSwallowed(e) ==
    /\ raised' = e
    /\ pc' = "map_ref"
    /\ UNCHANGED response
\* An exception inside the Step 7 loop is not caught there: it leaves the
\* loop and reaches the handler's except clause.
MatchError(e) == Fail(e)

\* Step 7, one iteration of the loop over test_names: get_embedding is
\* called with the extracted name as it is, then map_test_code's lookup runs.
\* A prescribed_test of null cannot be iterated: the for statement raises.
MapTest ==
    /\ pc = "map_tests"
    /\ IF extracted_data.tests_json = "null"
       THEN /\ Fail(Raised("TypeError", 0, "'NoneType' object is not iterable"))
            /\ UNCHANGED <<calls, mapped_tests, matched>>
       ELSE LET input_test_name == extracted_data.prescribed_test[Len(mapped_tests) + 1]
            IN /\ calls' = Append(calls, Call("get_embedding", input_test_name))
               /\ \/ \E q \in QueryVecs :
                        LET m == map_test_code(df_test, q, threshold)
                        IN IF m.error # NoError
                           THEN MatchError(m.error) /\ UNCHANGED <<mapped_tests, matched>>
                           ELSE /\ matched' = Append(matched, [name |-> m.name, code |-> m.code])
                                /\ mapped_tests' = Append(mapped_tests,
                                      [extracted_test_name |-> input_test_name,
                                       mapped_test_name |-> OrBlank(m.name),
                                       mapped_test_code |-> OrBlank(m.code)])
                                /\ pc' = IF Len(mapped_tests') = Len(extracted_data.prescribed_test)
                                         THEN "map_ref" ELSE "map_tests"
                                /\ UNCHANGED <<raised, response>>
                  \/ /\ MatchError(Raised("OpenAIError", 0, "embedding request failed"))
                     /\ UNCHANGED <<mapped_tests, matched>>
    /\ df_test' = AfterLookup(df_test)
    /\ UNCHANGED <<df_ref, threshold, max_size, web, provider, svcVars, probe,
                   request, image, compressVars, files,
                   compressed_image_path, gpt_content, extracted_data,
                   combined_result, external_api_response, stored>>

\* Step 7, the referrer: map_ref_code(ref_name, threshold) is called whatever
\* ref_name is.
MapRef ==
    /\ pc = "map_ref"
    /\ LET ref_name == extracted_data.referrer_name
       IN /\ calls' = Append(calls, Call("get_embedding", ref_name))
          /\ \/ \E q \in QueryVecs :
                   LET m == map_ref_code(df_ref, q, threshold)
                   IN IF m.error # NoError
                      THEN Fail(m.error) /\ UNCHANGED extracted_data
                      ELSE /\ extracted_data' =
                                 [extracted_data EXCEPT
                                    !.mapped_ref_name = OrBlank(m.name),
                                    !.mapped_ref_code = OrBlank(m.code),
                                    !.mapped_ref_type = OrBlank(m.type)]
                           /\ pc' = "persist"
                           /\ UNCHANGED <<raised, response>>
             \/ /\ Fail(Raised("OpenAIError", 0, "embedding request failed"))
                /\ UNCHANGED extracted_data
    /\ df_ref' = AfterLookup(df_ref)
    /\ UNCHANGED <<df_test, threshold, max_size, web, provider, svcVars, probe,
                   request, image, compressVars, files,
                   compressed_image_path, gpt_content, mapped_tests, matched,
                   combined_result, external_api_response, stored>>

\* ------------------------------------------------------------ persistence
\* Step 8: the payload.
CombinedResult(data, tests, booking_id) ==
    [extracted_data_AI |->
        [pt_age |-> data.patient_age,
         pt_name |-> data.patient_name,
         ref_name |-> data.referrer_name,
         mapped_ref_name |-> data.mapped_ref_name,
         mapped_ref_type |-> data.mapped_ref_type,
         mapped_ref_code |-> data.mapped_ref_code,
         prescribed_tests |-> tests],
     created_by |-> [userId |-> "system", CRNID |-> "system"],
     created_at |-> Timestamp,
     booking_id |-> booking_id]

\* create_prescription_entry of the persistence service: insert_one, then
\* 201 with the stored document; any exception becomes a 500.
StatusCreated == 201
\* The pattern of PrescriptionCreateData.created_at: four digits, then five
\* groups of two.
MatchesPattern(created_at) ==
    /\ Len(created_at) = 6
    /\ [i \in 1..6 |-> created_at[i].width] = << 4, 2, 2, 2, 2, 2 >>
create_prescription_entry(prescription, collection, insert_ok) ==
    IF ~ MatchesPattern(prescription.created_at)
    THEN [status_code |-> 422, collection |-> collection,
          json |-> [detail |-> "String should match pattern"],
          text |-> "String should match pattern"]
    ELSE IF insert_ok
    THEN LET object_id == Len(collection) + 1
             prescription_dict ==
                 [id |-> object_id,
                  extracted_data_AI |-> prescription.extracted_data_AI,
                  created_by |-> prescription.created_by,
                  created_at |-> prescription.created_at,
                  booking_id |-> prescription.booking_id]
         IN [status_code |-> StatusCreated,
             collection |-> Append(collection, prescription_dict),
             json |-> [id |-> object_id,
                       extracted_data_AI |-> prescription.extracted_data_AI,
                       created_by |-> prescription.created_by,
                       created_at |-> prescription.created_at,
                       booking_id |-> "N/A"],
             text |-> "created"]
    ELSE [status_code |-> 500, collection |-> collection,
          json |-> [detail |-> "Error inserting prescription."],
          text |-> "Error inserting prescription."]

\* Variant of the success test that accepts any answer of the service.
IsCreatedAnyStatus(status_code) == status_code >= 200
\* if external_api_response.status_code == 201
IsCreated(status_code) == status_code = StatusCreated

\* Variant of the response that passes the service's answer on as received.
ResponseDataAsReceived(json, booking_id) == json
\* response_data = external_api_response.json()
\* response_data["booking_id"] = image_url.booking_id
ResponseData(json, booking_id) == ("booking_id" :> booking_id) @@ json

\* Steps 8-9 up to the await: build the payload and send the post.  The
\* handler is suspended until the answer arrives.
Post ==
    /\ pc = "persist"
    /\ combined_result' = CombinedResult(extracted_data, mapped_tests, request.booking_id)
    /\ calls' = Append(calls, Call("client.post", combined_result'))
    /\ pc' = "posting"
    /\ UNCHANGED <<cfgVars, svcVars, probe, request, image, compressVars, files,
                   compressed_image_path, gpt_content, extracted_data,
                   mapped_tests, matched, external_api_response, raised,
                   response, stored>>

\* Step 9 after the await: the service handled the post and the handler
\* answers from its response.  The post may also fail in transport before the
\* service saw it, or time out after the service stored the document.
Persist ==
    /\ pc = "posting"
    /\ \/ \E insert_ok \in BOOLEAN :
             LET r == create_prescription_entry(combined_result, stored, insert_ok)
             IN /\ stored' = r.collection
                /\ external_api_response' = [status_code |-> r.status_code, json |-> r.json]
                /\ IF IsCreated(r.status_code)
                   THEN /\ response' = [status |-> 200,
                                        body |-> ResponseData(r.json, request.booking_id)]
                        /\ pc' = "done"
                        /\ UNCHANGED raised
                   ELSE Fail(Raised("HTTPException", r.status_code, "Failed to send data"))
       \/ /\ Fail(Raised("httpx.ConnectError", 0, "All connection attempts failed"))
          /\ UNCHANGED <<stored, external_api_response>>
       \/ /\ stored' = create_prescription_entry(combined_result, stored, TRUE).collection
          /\ Fail(Raised("httpx.ReadTimeout", 0, "timed out"))
          /\ UNCHANGED external_api_response
    /\ UNCHANGED <<cfgVars, svcVars, probe, request, image, compressVars, files,
                   compressed_image_path, gpt_content, extracted_data,
                   mapped_tests, matched, combined_result, calls>>

\* ----------------------------------------------- the service over time
\* The handler has answered; the next request may arrive.  The locals of the
\* finished call are gone; the output directory and the collection stay.
Return ==
    /\ pc \in { "done", "failed" }
    /\ served + 1 < MaxRequests
    /\ served' = served + 1
    /\ pc' = "idle"
    /\ request' = NoRequest
    /\ image' = NoImage
    /\ quality' = 0
    /\ buffer' = << >>
    /\ size' = 0
    /\ encodings' = 0
    /\ compressed_image_path' = << >>
    /\ gpt_content' = << >>
    /\ extracted_data' = NoData
    /\ mapped_tests' = << >>
    /\ matched' = << >>
    /\ combined_result' = NoPayload
    /\ external_api_response' = NoExternalResponse
    /\ calls' = << >>
    /\ raised' = NoError
    /\ response' = NoResponse
    /\ UNCHANGED <<cfgVars, now, peer, probe, files, stored>>

\* A second of the clock passes.
Tick ==
    /\ now < MaxClock
    /\ now' = now + 1
    /\ UNCHANGED <<cfgVars, served, peer, probe, reqVars>>

\* Variant of the scheduling in which another request may run at any point
\* of the handler (as with threads or several worker processes).
LoopFreeAlways == TRUE
\* extract_and_map_tests is a coroutine (async def) whose calls up to the
\* post are all blocking and whose only await is the post: the event loop
\* runs another request only before the handler starts, while it awaits the
\* post, and after it returned.
LoopFree == pc \in { "idle", "posting", "done", "failed" }

\* The record the concurrent request submits.
PeerObject == [referrer_name |-> "Dr B", tests_json |-> "array",
               prescribed_test |-> << >>,
               patient_age |-> JStr("7"), patient_name |-> JStr("Ravi")]
PeerResult == CombinedResult(Defaults(PeerObject), << >>, "B9")

\* The concurrent request runs Steps 1-8 of its own call of the handler, up
\* to its post: it loads an image of an accepted format, compress_image
\* writes it to the file named after the current second, and the file is
\* read back and sent to the extraction provider.
PeerRun ==
    /\ LoopFree
    /\ peer = NoPeer
    /\ \E img \in web :
          /\ lower(img.format) \in valid_extensions
          /\ LET written == compress_image(img, max_size)
                 path == CompressedPath(img.format)
             IN /\ files' = (path :> written) @@ files
                /\ peer' = [pc |-> "posting", path |-> path, written |-> written,
                            sent |-> encode_image(files'[path]),
                            payload |-> PeerResult]
    /\ UNCHANGED <<cfgVars, now, served, probe, pc, request, image, compressVars,
                   compressed_image_path, gpt_content, extracted_data,
                   mapped_tests, matched, combined_result,
                   external_api_response, calls, raised, response, stored>>

\* The persistence service handles the concurrent request's post.
PeerPost ==
    /\ peer.pc = "posting"
    /\ stored' = create_prescription_entry(peer.payload, stored, TRUE).collection
    /\ peer' = [peer EXCEPT !.pc = "done"]
    /\ UNCHANGED <<cfgVars, now, served, probe, pc, request, image, compressVars,
                   files, compressed_image_path, gpt_content, extracted_data,
                   mapped_tests, matched, combined_result,
                   external_api_response, calls, raised, response>>

\* ------------------------------------------- direct calls of the matchers
\* map_test_code(input_test_name, threshold) as a whole: the get_embedding
\* call (which returns a vector or raises), then the lookup.
CallMapTestCode ==
    /\ pc = "matcher"
    /\ probe = NoProbe
    /\ \E text \in Texts :
          \/ \E q \in QueryVecs :
                probe' = [fn |-> "map_test_code", text |-> text, embedded |-> TRUE,
                          q |-> q, threshold |-> threshold,
                          result |-> map_test_code(df_test, q, threshold)]
          \/ probe' = [fn |-> "map_test_code", text |-> text, embedded |-> TRUE,
                       q |-> << >>, threshold |-> threshold,
                       result |-> [error |-> Raised("OpenAIError", 0, "embedding request failed")]]
    /\ UNCHANGED <<cfgVars, svcVars, reqVars>>

CallMapRefCode ==
    /\ pc = "matcher"
    /\ probe = NoProbe
    /\ \E text \in Texts :
          \/ \E q \in QueryVecs :
                probe' = [fn |-> "map_ref_code", text |-> text, embedded |-> TRUE,
                          q |-> q, threshold |-> threshold,
                          result |-> map_ref_code(df_ref, q, threshold)]
          \/ probe' = [fn |-> "map_ref_code", text |-> text, embedded |-> TRUE,
                       q |-> << >>, threshold |-> threshold,
                       result |-> [error |-> Raised("OpenAIError", 0, "embedding request failed")]]
    /\ UNCHANGED <<cfgVars, svcVars, reqVars>>

\* ---------------------------------------------------------- specifications
\* No request in flight: the handler's locals are unset, the output
\* directory and the prescriptions collection are empty.
InitHandler ==
    /\ probe = NoProbe
    /\ request = NoRequest
    /\ image = NoImage
    /\ quality = 0
    /\ buffer = << >>
    /\ size = 0
    /\ encodings = 0
    /\ files = << >>
    /\ compressed_image_path = << >>
    /\ gpt_content = << >>
    /\ extracted_data = NoData
    /\ mapped_tests = << >>
    /\ matched = << >>
    /\ combined_result = NoPayload
    /\ external_api_response = NoExternalResponse
    /\ calls = << >>
    /\ raised = NoError
    /\ response = NoResponse
    /\ stored = << >>
    /\ now = 0
    /\ served = 0
    /\ peer = NoPeer

\* The service after start-up: a two-record test catalog and a two-record
\* referrer catalog loaded from the CSV files, the configured threshold and
\* size budget, and the images that URLs serve.  The JPEG images are one byte
\* at every quality, MaxEncSize bytes at every quality, or MaxEncSize bytes
\* down to quality 50 and one below; the images of the other formats PIL
\* decodes (accepted or not by validate_image) are one byte at every quality.
ServiceThresholds == { 80, 97 }
ServiceFormats == { "PNG", "GIF", "WEBP", "BMP", "MPO", "TIFF" }
ServiceCuts == { QualityFloor, 50, InitialQuality + QualityStep }
ServiceWeb ==
    { [format |-> "JPEG", sizes |-> StepProfile([k \in 1..(MaxEncSize - 1) |-> c])] :
        c \in ServiceCuts }
    \cup { [format |-> f,
            sizes |-> StepProfile([k \in 1..(MaxEncSize - 1) |-> InitialQuality + QualityStep])] :
            f \in ServiceFormats }
Init ==
    /\ df_test = TestCatalog(<< <<1, 0>>, <<0, 1>> >>)
    /\ df_ref = RefCatalog(<< <<0, 1>>, <<1, 0>> >>)
    /\ threshold \in ServiceThresholds
    /\ max_size = 1
    /\ web = ServiceWeb
    /\ provider = "any"
    /\ pc = "idle"
    /\ InitHandler

Next ==
    \/ Receive
    \/ Load
    \/ Validate
    \/ CompressBegin
    \/ CompressStep
    \/ CompressWrite
    \/ Extract
    \/ Parse
    \/ MapTest
    \/ MapRef
    \/ Post
    \/ Persist

Spec == Init /\ [][Next]_vars

\* The service answering up to MaxRequests requests one after the other.
\* URLs serve two JPEG images: one byte at every quality, and MaxEncSize
\* bytes at quality 95 and one below.
InitService ==
    /\ df_test = TestCatalog(<< <<1, 0>>, <<0, 1>> >>)
    /\ df_ref = RefCatalog(<< <<0, 1>>, <<1, 0>> >>)
    /\ threshold \in ServiceThresholds
    /\ max_size = 1
    /\ web = { [format |-> "JPEG",
                sizes |-> StepProfile([k \in 1..(MaxEncSize - 1) |-> c])] :
                c \in { InitialQuality, InitialQuality + QualityStep } }
    /\ provider = "plain"
    /\ pc = "idle"
    /\ InitHandler

NextService ==
    \/ Receive
    \/ Load
    \/ Validate
    \/ CompressBegin
    \/ CompressStep
    \/ CompressWrite
    \/ Extract
    \/ Parse
    \/ MapTest
    \/ MapRef
    \/ Post
    \/ Persist
    \/ Return

SpecService == InitService /\ [][NextService]_vars

\* The service answering one request while the clock advances and a second
\* request is served concurrently by the same process.
NextConcurrent ==
    \/ Receive
    \/ Load
    \/ Validate
    \/ CompressBegin
    \/ CompressStep
    \/ CompressWrite
    \/ Extract
    \/ Parse
    \/ MapTest
    \/ MapRef
    \/ Post
    \/ Persist
    \/ Tick
    \/ PeerRun
    \/ PeerPost

SpecConcurrent == InitService /\ [][NextConcurrent]_vars

\* The matchers called directly, for every catalog of up to MaxCat records,
\* every threshold, text and query embedding.  Neither matcher reads the
\* other's catalog, so both catalogs are built over the same embeddings.
InitMatch ==
    /\ \E embs \in SeqsUpTo(CatVecs, MaxCat) :
          /\ df_test = TestCatalog(embs)
          /\ df_ref = RefCatalog(embs)
    /\ threshold \in Thresholds
    /\ max_size = 1
    /\ web = {}
    /\ provider = "any"
    /\ pc = "matcher"
    /\ InitHandler

NextMatch == CallMapTestCode \/ CallMapRefCode

SpecMatch == InitMatch /\ [][NextMatch]_vars

\* compress_image called directly, for every image profile and every budget.
InitCompress ==
    /\ df_test = << >>
    /\ df_ref = << >>
    /\ threshold = 0
    /\ max_size \in 1..MaxEncSize
    /\ web = {}
    /\ provider = "any"
    /\ now = 0
    /\ served = 0
    /\ peer = NoPeer
    /\ pc = "compress"
    /\ probe = NoProbe
    /\ request = NoRequest
    /\ image \in { [format |-> "JPEG", sizes |-> p] : p \in Profiles }
    /\ quality = 0
    /\ buffer = << >>
    /\ size = 0
    /\ encodings = 0
    /\ files = << >>
    /\ compressed_image_path = << >>
    /\ gpt_content = << >>
    /\ extracted_data = NoData
    /\ mapped_tests = << >>
    /\ matched = << >>
    /\ combined_result = NoPayload
    /\ external_api_response = NoExternalResponse
    /\ calls = << >>
    /\ raised = NoError
    /\ response = NoResponse
    /\ stored = << >>

NextCompress == CompressBegin \/ CompressStep \/ CompressWrite

SpecCompress == InitCompress /\ [][NextCompress]_vars

\* ------------------------------------------------------------------ claims
\* The direct matcher call the state holds, once it returned a result.
ProbeReturned ==
    /\ probe.fn # None
    /\ probe.result.error = NoError
ProbeCatalog == IF probe.fn = "map_test_code" THEN df_test ELSE df_ref
ProbeSims == Similarities(probe.q, Embeddings(ProbeCatalog))
ProbeNameOf(i) ==
    IF probe.fn = "map_test_code" THEN df_test[i].TestName ELSE df_ref[i].RefName
ProbeCodeOf(i) ==
    IF probe.fn = "map_test_code" THEN df_test[i].TestCode ELSE df_ref[i].RefCode
\* The result carries record i's name and code (and type, for a referrer).
ProbeResultIsRecord(r, i) ==
    /\ r.name = ProbeNameOf(i)
    /\ r.code = ProbeCodeOf(i)
    /\ probe.fn = "map_ref_code" => r.type = df_ref[i].RefType
ProbeResultIsNone(r) ==
    /\ r.name = None
    /\ r.code = None
    /\ probe.fn = "map_ref_code" => r.type = None
\* i is a record of maximal similarity to the query.
IsMaximal(sims, i) == \A j \in DOMAIN sims : ~ SimLess(sims[i], sims[j])
SimEqual(s, t) == ~ SimLess(s, t) /\ ~ SimLess(t, s)

\* C1: for a non-empty query text, map_test_code and map_ref_code return the
\* name and code (and type) of a best-scoring record exactly when some
\* record's cosine score is at least the threshold (a score equal to the
\* threshold matches), and return None for every field exactly when every
\* score is below the threshold.
C1_ThresholdDecidesMatch ==
    (ProbeReturned /\ ~ IsBlank(probe.text)) =>
        LET reached == \E i \in DOMAIN ProbeSims :
                          SimGeqThreshold(ProbeSims[i], threshold)
        IN /\ reached =>
                \E i \in DOMAIN ProbeSims :
                    /\ IsMaximal(ProbeSims, i)
                    /\ ProbeResultIsRecord(probe.result, i)
           /\ ~ reached => ProbeResultIsNone(probe.result)
           /\ reached <=> probe.result.name # None

\* C1 witness: a non-empty text matched by a best score equal to a positive
\* threshold.
C1_Witness ==
    /\ ProbeReturned /\ ~ IsBlank(probe.text)
    /\ threshold > 0
    /\ probe.result.name # None
    /\ 10000 * ProbeSims[probe.result.index][1] * ProbeSims[probe.result.index][1]
           = threshold * threshold * ProbeSims[probe.result.index][2]

\* C2: with at least one record in the catalog, the selected record is in
\* the catalog, no record scores higher, and every record loaded before it
\* scores strictly lower (the first of the best-scoring records is selected).
C2_ArgmaxFirstOfBest ==
    ProbeReturned =>
        /\ probe.result.index \in 1..Len(ProbeCatalog)
        /\ IsMaximal(ProbeSims, probe.result.index)
        /\ \A j \in 1..(probe.result.index - 1) :
              SimLess(ProbeSims[j], ProbeSims[probe.result.index])

\* C2 witness: two records share the maximal score and the earlier one was
\* selected and returned.
C2_Witness ==
    /\ ProbeReturned
    /\ probe.result.name # None
    /\ \E j \in DOMAIN ProbeSims :
          /\ j > probe.result.index
          /\ ProbeCatalog[j].emb # ProbeCatalog[probe.result.index].emb
          /\ SimEqual(ProbeSims[j], ProbeSims[probe.result.index])

\* The matcher's lookup for the probed query at another threshold.
ProbeAt(t) ==
    IF probe.fn = "map_test_code"
    THEN map_test_code(df_test, probe.q, t)
    ELSE map_ref_code(df_ref, probe.q, t)
SameRecord(r1, r2) ==
    /\ r1.name = r2.name
    /\ r1.code = r2.code
    /\ probe.fn = "map_ref_code" => r1.type = r2.type

\* C4: for the same query and catalog and thresholds t1 <= t2, a record
\* returned at t2 is returned at t1 too: the call made at the configured
\* threshold agrees with the lookup at every lower threshold when it
\* matched, and with every higher threshold at which the lookup matches.
C4_ThresholdMonotonic ==
    ProbeReturned =>
        \A t \in Thresholds \cup { 100 } :
            /\ (t <= threshold /\ probe.result.name # None)
                  => SameRecord(ProbeAt(t), probe.result)
            /\ (t >= threshold /\ ProbeAt(t).name # None)
                  => SameRecord(probe.result, ProbeAt(t))

\* C4 witness: the call matched at the configured threshold and the same
\* query does not match at a higher threshold.
C4_Witness ==
    /\ ProbeReturned
    /\ probe.result.name # None
    /\ \E t \in Thresholds : t > threshold /\ ProbeAt(t).name = None

\* The calls of the request's log with a given operation.
CallsOf(op) == { i \in DOMAIN calls : calls[i].op = op }
HasFailed == raised.kind # "none"

\* C3: a text that is empty or whitespace-only is never handed to
\* get_embedding (neither a prescribed test name nor the referrer name).
C3_NoEmbeddingOfBlankText ==
    \A i \in CallsOf("get_embedding") : ~ IsBlank(calls[i].arg)

\* The stage of the pipeline an operation of the log belongs to.
StageOf(op) ==
    CASE op = "requests.get" -> 1
      [] op = "validate_image" -> 2
      [] op = "compress_image" -> 3
      [] op = "chat.completions" -> 4
      [] op = "get_embedding" -> 5
      [] op = "client.post" -> 6
FetchFailed ==
    /\ HasFailed
    /\ raised.detail \in { "Error loading image from URL", "Error loading image" }

\* C5: the stages of a request run in the order fetch, validate, compress,
\* extract, match, persist, each right after the one before it (matching may
\* repeat, once per text), a failure of a stage ends the request, and after
\* a failed fetch nothing but the fetch has run.
C5_StagesInOrder ==
    /\ \A i \in DOMAIN calls :
          IF i = 1 THEN StageOf(calls[i].op) = 1
          ELSE \/ StageOf(calls[i].op) = StageOf(calls[i - 1].op) + 1
               \/ StageOf(calls[i].op) = 5 /\ StageOf(calls[i - 1].op) = 5
    /\ HasFailed => pc = "failed"
    /\ FetchFailed => \A i \in DOMAIN calls : calls[i].op = "requests.get"

\* C5 witness: the fetch failed and the request ended with the fetch as its
\* only operation.
C5_Witness ==
    /\ pc = "failed"
    /\ FetchFailed
    /\ Len(calls) = 1

ParseFailed == HasFailed /\ raised.kind = "JSONDecodeError"
MatchFailed ==
    /\ HasFailed
    /\ \/ raised.kind = "ValueError"
       \/ raised.kind = "OpenAIError" /\ raised.detail = "embedding request failed"

\* C6: when the extraction response does not parse, or a match of a test
\* name or of the referrer name fails, the request ends in failure, nothing
\* is posted to the persistence service and nothing is stored; a posted
\* record has one mapped entry for every extracted test name.
C6_NoPersistAfterParseOrMatchFailure ==
    /\ (ParseFailed \/ MatchFailed) =>
          /\ pc = "failed"
          /\ response.status = 500
          /\ CallsOf("client.post") = {}
          /\ stored = << >>
    /\ \A i \in CallsOf("client.post") :
          LET tests == calls[i].arg.extracted_data_AI.prescribed_tests
          IN /\ Len(tests) = Len(extracted_data.prescribed_test)
             /\ \A k \in DOMAIN tests :
                   tests[k].extracted_test_name = extracted_data.prescribed_test[k]

\* C6 witness: a match failed after an earlier test name had been mapped,
\* and the request ended without a post.
C6_Witness ==
    /\ pc = "failed"
    /\ MatchFailed
    /\ Len(mapped_tests) >= 1
    /\ Len(mapped_tests) < Len(extracted_data.prescribed_test)
    /\ CallsOf("client.post") = {}

\* C7: the request succeeds exactly when the persistence service answered
\* 201 Created: then the caller gets a success response and the posted
\* record is in the collection; any other answer, or none, fails the request.
C7_SuccessIffCreated ==
    /\ pc = "done" <=> external_api_response.status_code = 201
    /\ response.status = 200 <=> pc = "done"
    /\ pc = "done" =>
          \E k \in DOMAIN stored :
              /\ stored[k].extracted_data_AI = combined_result.extracted_data_AI
              /\ stored[k].booking_id = request.booking_id
              /\ stored[k].id = response.body.id
    /\ (external_api_response.status_code # 0
          /\ external_api_response.status_code \notin 200..299) =>
          pc = "failed" /\ response.status = 500

\* C7 witness: the service stored the record and answered 201, and the
\* request succeeded.
C7_Witness ==
    /\ external_api_response.status_code = 201
    /\ pc = "done"
    /\ response.status = 200
    /\ Len(stored) = 1

\* C8: a failed request answers with the error kind chosen at the failing
\* stage: the status of the HTTPException raised there is the status the
\* caller receives.
C8_ErrorKindPreserved ==
    (pc = "failed" /\ raised.kind = "HTTPException") =>
        response.status = raised.status

\* C9: compress_image encodes at 95, 90, ..., never below 5; the loop ends
\* at the first quality whose encoding is within the budget, or at quality
\* 5, after at most 19 encodings; the loop itself raises nothing, so an
\* image over budget at quality 5 still gets its file written.
LoopDone == pc \in { "compress_write", "extract", "failed" }
C9_CompressLoopBounded ==
    /\ pc = "compress_loop" =>
          /\ quality \in { 5 * k : k \in 1..19 }
          /\ encodings = (95 - quality) \div 5
          /\ \A q \in Qualities : q > quality => image.sizes[q] > max_size
    /\ LoopDone =>
          /\ quality \in { 5 * k : k \in 1..19 }
          /\ encodings = (95 - quality) \div 5 + 1
          /\ encodings <= 19
          /\ size = image.sizes[quality]
          /\ size <= max_size \/ quality = 5
          /\ \A q \in Qualities : q > quality => image.sizes[q] > max_size
    /\ (pc = "compress_write" /\ size > max_size) => ENABLED CompressWrite
    /\ pc = "failed" => raised.detail = "Error compressing image"

\* C9 witness: every encoding down to quality 5 was over budget and the
\* file was written all the same, after 19 encodings.
C9_Witness ==
    /\ pc = "extract"
    /\ quality = 5
    /\ encodings = 19
    /\ size > max_size
    /\ compressed_image_path \in DOMAIN files

\* C10: the bytes compress_image writes, and the bytes sent to the
\* extraction provider, are exactly the encoding made at the final quality;
\* when the loop stopped within the budget, so is their length.
C10_OutputIsFinalEncoding ==
    /\ compressed_image_path \in DOMAIN files =>
          /\ files[compressed_image_path] = Encoding(image, quality)
          /\ size <= max_size => Len(files[compressed_image_path]) <= max_size
    /\ \A i \in CallsOf("chat.completions") :
          b64decode(calls[i].arg) = Encoding(image, quality)

\* The formats the specification allows.
AllowList == { "png", "jpg", "jpeg", "gif", "webp" }
UnsupportedFormat ==
    /\ HasFailed
    /\ raised.detail = "Invalid image: Unsupported image format"

\* C11: an image whose decoded format is not one of png, jpg, jpeg, gif,
\* webp fails validation and its request ends in failure with validation as
\* the last operation (no compression, no extraction call, no post); an
\* image whose format is in the list is not rejected by validation.
C11_FormatAllowList ==
    /\ \A i \in CallsOf("validate_image") :
          IF lower(calls[i].arg) \in AllowList
          THEN ~ UnsupportedFormat
          ELSE /\ pc = "failed"
               /\ UnsupportedFormat
               /\ i = Len(calls)
    /\ (image # NoImage /\ lower(image.format) \notin AllowList) =>
          /\ pc \in { "validate", "failed" }
          /\ CallsOf("compress_image") = {}
          /\ CallsOf("chat.completions") = {}
          /\ CallsOf("client.post") = {}

\* C11 witness: an image decoded as MPO (a multi-picture JPEG) was rejected
\* by validation and the request ended there.
C11_Witness ==
    /\ pc = "failed"
    /\ image.format = "MPO"
    /\ UnsupportedFormat
    /\ calls[Len(calls)].op = "validate_image"

\* The JSON object of the extraction response the handler received.
HasObject == \E i \in DOMAIN gpt_content : gpt_content[i].t = "object"
ResponseObject ==
    gpt_content[CHOOSE i \in DOMAIN gpt_content : gpt_content[i].t = "object"].v
\* The test names the response lists.
ExtractedNames ==
    IF ResponseObject.tests_json = "array" THEN ResponseObject.prescribed_test
    ELSE << >>
\* The payload of post i of the log.
Submitted(i) == calls[i].arg.extracted_data_AI

\* C12: the prescribed_tests list of the submitted record has one entry per
\* extracted test name, in the same order; entry k carries the k-th
\* extracted name and the name and code map_test_code returned for it, or
\* the empty string (never None) when it returned none; when the response
\* lists no tests the list is empty and the only embedding requested is the
\* referrer's.
C12_TestsListFollowsExtraction ==
    \A i \in CallsOf("client.post") :
        LET tests == Submitted(i).prescribed_tests
        IN /\ Len(tests) = Len(ExtractedNames)
           /\ Len(matched) = Len(tests)
           /\ \A k \in DOMAIN tests :
                 /\ tests[k].extracted_test_name = ExtractedNames[k]
                 /\ tests[k].mapped_test_name # None
                 /\ tests[k].mapped_test_code # None
                 /\ IF matched[k].name # None
                    THEN /\ tests[k].mapped_test_name = matched[k].name
                         /\ tests[k].mapped_test_code = matched[k].code
                    ELSE /\ tests[k].mapped_test_name = ""
                         /\ tests[k].mapped_test_code = ""
           /\ Cardinality(CallsOf("get_embedding")) = Len(tests) + 1
           /\ ExtractedNames = << >> =>
                 /\ tests = << >>
                 /\ \A j \in CallsOf("get_embedding") :
                       calls[j].arg = extracted_data.referrer_name

\* C12 witness: a record was submitted whose first test name was matched
\* and whose second was not.
C12_Witness ==
    \E i \in CallsOf("client.post") :
        /\ Len(Submitted(i).prescribed_tests) = 2
        /\ Submitted(i).prescribed_tests[1].mapped_test_code = "T001"
        /\ Submitted(i).prescribed_tests[2].mapped_test_name = ""
        /\ matched[2].name = None

\* C13: in the submitted record every patient/referrer field that is missing
\* or null in the response is the empty string, every field that is present
\* keeps its value, and pt_age is a string: the string form of the extracted
\* age (of a number such as 0 too), or the empty string when the age is
\* missing or null.
C13_FieldsNormalised ==
    \A i \in CallsOf("client.post") :
        LET o == ResponseObject
        IN /\ Submitted(i).ref_name =
                 IF o.referrer_name \in { Missing, None } THEN "" ELSE o.referrer_name
           /\ Submitted(i).pt_name =
                 IF o.patient_name \in { JMissing, JNull } THEN JStr("") ELSE o.patient_name
           /\ Submitted(i).pt_age.t = "string"
           /\ Submitted(i).pt_age.s =
                 IF o.patient_age \in { JMissing, JNull } THEN "" ELSE o.patient_age.s

\* A response that is a JSON object between an opening fence, with or
\* without the json tag, and a closing fence.
IsFenced(c) ==
    /\ Len(c) \in { 3, 4 }
    /\ c[1] = Fence
    /\ c[Len(c)] = Fence
    /\ c[Len(c) - 1].t = "object"
    /\ Len(c) = 4 => c[2] = Lang

\* C14: a response that is a JSON object between code-fence markers (the
\* opening fence with or without the json tag) never fails to parse, and is
\* parsed to what the bare object would be parsed to.
C14_FencedResponseParses ==
    (IsFenced(gpt_content) /\ pc # "parse") =>
        /\ ~ ParseFailed
        /\ extracted_data.referrer_name = Defaults(ResponseObject).referrer_name
        /\ extracted_data.prescribed_test = Defaults(ResponseObject).prescribed_test
        /\ extracted_data.patient_age = Defaults(ResponseObject).patient_age
        /\ extracted_data.patient_name = Defaults(ResponseObject).patient_name

\* C15: no step of any request changes the test catalog, the referrer
\* catalog or the threshold.
C15_CatalogsNeverChange ==
    [][df_test' = df_test /\ df_ref' = df_ref /\ threshold' = threshold]_vars

\* C15 witness: a request that follows an answered one has matched a test
\* name and the referrer name and was answered too.
C15_Witness ==
    /\ served >= 1
    /\ pc = "done"
    /\ Len(matched) >= 1
    /\ Cardinality(CallsOf("get_embedding")) = Len(matched) + 1

RECURSIVE EmbeddingArgsUpTo(_)
EmbeddingArgsUpTo(n) ==
    IF n = 0 THEN << >>
    ELSE IF calls[n].op = "get_embedding"
         THEN Append(EmbeddingArgsUpTo(n - 1), calls[n].arg)
         ELSE EmbeddingArgsUpTo(n - 1)
EmbeddingArgs == EmbeddingArgsUpTo(Len(calls))

\* C17: within a request the image fetch, the extraction call and the post
\* are each made at most once, the embedding is requested at most once per
\* prescribed test name (in order) and then once for the referrer name, and
\* once the request has failed no further call is made.
C17_NoRetryFailureTerminal ==
    /\ [](/\ Cardinality(CallsOf("requests.get")) <= 1
          /\ Cardinality(CallsOf("chat.completions")) <= 1
          /\ Cardinality(CallsOf("client.post")) <= 1
          /\ Len(EmbeddingArgs) <= Len(extracted_data.prescribed_test) + 1
          /\ \A k \in DOMAIN EmbeddingArgs :
                EmbeddingArgs[k] =
                    IF k <= Len(extracted_data.prescribed_test)
                    THEN extracted_data.prescribed_test[k]
                    ELSE extracted_data.referrer_name
          /\ HasFailed => pc = "failed")
    /\ [][HasFailed => (calls' = calls /\ pc' = "failed")]_vars

\* C17 witness: the embedding request for the second test name failed, and
\* the request ended after one fetch, one extraction call, two embedding
\* requests and no post.
C17_Witness ==
    /\ pc = "failed"
    /\ raised.detail = "embedding request failed"
    /\ Cardinality(CallsOf("requests.get")) = 1
    /\ Cardinality(CallsOf("chat.completions")) = 1
    /\ Len(EmbeddingArgs) = 2
    /\ Len(extracted_data.prescribed_test) = 2
    /\ CallsOf("client.post") = {}

IsHttpUrl(url) == url.scheme \in { "http://", "https://" }

\* C18: a request whose url does not start with http:// or https:// is
\* rejected without an image fetch, with the detail 'Invalid URL format.
\* Must be an HTTP/HTTPS URL.', and the caller receives status 400.
C18_InvalidUrlAnswered400 ==
    (request # NoRequest /\ ~ IsHttpUrl(request.url) /\ pc # "load") =>
        /\ pc = "failed"
        /\ CallsOf("requests.get") = {}
        /\ raised.detail = "Invalid URL format. Must be an HTTP/HTTPS URL."
        /\ response.status = 400

\* YYYY-MM-DD-HH-MM-SS: a year of four digits and five fields of two.
IsTimestampForm(ts) ==
    /\ Len(ts) = 6
    /\ ts[1].width = 4
    /\ \A k \in 2..6 : ts[k].width = 2

\* C19: the response of a successful request carries the identifier the
\* persistence service generated for the stored record, the created_at that
\* was submitted (of the form YYYY-MM-DD-HH-MM-SS), and the booking_id of
\* the request, whatever booking_id the service answered with.
C19_ResponseEchoesStoredRecord ==
    pc = "done" =>
        /\ \E k \in DOMAIN stored :
              /\ stored[k].id = response.body.id
              /\ stored[k].id = external_api_response.json.id
              /\ stored[k].extracted_data_AI = combined_result.extracted_data_AI
              /\ stored[k].created_at = combined_result.created_at
              /\ \A j \in DOMAIN stored : stored[j].id = stored[k].id => j = k
        /\ response.body.created_at = combined_result.created_at
        /\ IsTimestampForm(response.body.created_at)
        /\ response.body.booking_id = request.booking_id

\* C19 witness: the service answered with a booking_id other than the
\* request's, the clock had advanced before the record was submitted, and
\* the response carries the request's booking_id.
C19_Witness ==
    /\ pc = "done"
    /\ external_api_response.json.booking_id # request.booking_id
    /\ response.body.booking_id = request.booking_id
    /\ response.body.created_at = strftime(MaxClock)
    /\ compressed_image_path[3] # response.body.created_at
====
